---- MODULE Spec2Model ----
(***************************************************************************)
(* Model of app.py: a Flask application that serves Google Trends data     *)
(* through two module-level caches (leaderboard, time series).  Every      *)
(* request is handled by its own thread (the development server of Flask   *)
(* is threaded), so handlers interleave at every access to the module      *)
(* globals and at every blocking upstream call.                            *)
(***************************************************************************)
EXTENDS Integers, Sequences, FiniteSets, TLC

----------------------------------------------------------------------------
(* Bounds of the model *)

\* request-handling threads
Threads == {"t1", "t2"}
\* days of wall clock time when requests are handled one at a time
MaxDays == 1
\* hours of wall clock time when two requests are handled concurrently
MaxHoursThreads == 6

----------------------------------------------------------------------------
(* Program constants *)

KEYWORDS == <<"e-invoicing", "PEPPOL">>

TRACKED_COUNTRIES ==
  <<"France", "Belgium", "United Arab Emirates", "United Kingdom", "United States">>

country_geo_map ==
  [c \in {"France", "Belgium", "United Arab Emirates", "United Kingdom", "United States"} |->
     CASE c = "France" -> "FR"
       [] c = "Belgium" -> "BE"
       [] c = "United Arab Emirates" -> "AE"
       [] c = "United Kingdom" -> "GB"
       [] c = "United States" -> "US"]

cache_duration_hours == 6
\* timedelta(hours=24) of serve_timeseries
timeseries_cache_hours == 24
\* "if consecutive_failures >= 2" of fetch_fresh_data
fresh_failure_limit == 2
\* "if consecutive_failures >= 3" of fetch_timeseries_data
timeseries_failure_limit == 3
\* df_filtered.head(10)
head_rows == 10

\* (names are written without their diacritics)
EXCLUDED_COUNTRIES ==
  {"Palau", "Grenada", "St. Pierre & Miquelon", "Mayotte", "St. Helena",
   "Wallis & Futuna", "Faroe Islands", "San Marino", "Liechtenstein",
   "Andorra", "Monaco", "Nauru", "Tuvalu", "Vatican City", "Marshall Islands",
   "Micronesia", "Kiribati", "Samoa", "Tonga", "Dominica", "St. Lucia",
   "Barbados", "St. Vincent & Grenadines", "Antigua & Barbuda", "Seychelles",
   "Maldives", "Guam", "American Samoa", "Northern Mariana Islands",
   "U.S. Virgin Islands", "British Virgin Islands", "Cayman Islands",
   "Turks & Caicos Islands", "Bermuda", "Anguilla", "Montserrat",
   "Falkland Islands", "Greenland", "French Polynesia", "New Caledonia",
   "French Guiana", "Martinique", "Guadeloupe", "Reunion", "Gibraltar",
   "Isle of Man", "Jersey", "Guernsey", "Djibouti", "Comoros",
   "Sao Tome & Principe", "Guinea-Bissau"}

----------------------------------------------------------------------------
(* Python values *)

\* Python's None
None == [none |-> TRUE]

\* a datetime, counted in hours since process start
datetime(h) == [hours |-> h]

\* truth value of "if x:" for x a dict or None: a dict with keys is true
Truthy(x) == x # None /\ DOMAIN x # {}

----------------------------------------------------------------------------
(* Upstream (pytrends) outcomes, drawn from small sets *)

\* outcome of the probe of is_heavily_rate_limited
ProbeOutcomes == {"ok", "429", "error"}

\* outcome of building the TrendReq session of a fetch function: an exception
\* there is caught by the outer "except Exception" and the function returns None
SessionOutcomes == {"ok", "error"}

\* interest_by_region results: DataFrames as sequences of rows
RegionFrames ==
  { << [geoName |-> "Belgium", value |-> 2],
       [geoName |-> "France",  value |-> 1],
       [geoName |-> "Palau",   value |-> 3] >>,
    << [geoName |-> "Belgium", value |-> 0],
       [geoName |-> "France",  value |-> 0],
       [geoName |-> "Palau",   value |-> 1] >> }

\* outcome of one leaderboard sub-query: an exception mentioning 429, another
\* exception, an empty DataFrame, or a DataFrame with rows
RegionOutcomes == {"429", "error", "empty", "data"}

----------------------------------------------------------------------------
(* Row shaping of fetch_fresh_data *)

RECURSIVE concat(_)
\* pd.concat(all_data)
concat(frames) ==
  IF frames = <<>> THEN <<>> ELSE Head(frames) \o concat(Tail(frames))

RECURSIVE SumInterest(_, _)
\* agg({'interest': 'sum'}) of one group
SumInterest(rows, c) ==
  IF rows = <<>> THEN 0
  ELSE (IF Head(rows).country = c THEN Head(rows).interest ELSE 0)
       + SumInterest(Tail(rows), c)

\* df.groupby('country').agg({'interest': 'sum'}) with interest > 0 kept
df_grouped(rows) ==
  { r \in { [country |-> rows[k].country,
             interest |-> SumInterest(rows, rows[k].country)] : k \in DOMAIN rows } :
      r.interest > 0 }

\* sort_values('interest', ascending=False): every descending order of the
\* rows (the order of rows with equal interest is not fixed by the sort)
sort_values(S) ==
  { s \in [1..Cardinality(S) -> S] :
      /\ \A a, b \in DOMAIN s : a # b => s[a] # s[b]
      /\ \A a, b \in DOMAIN s : a < b => s[a].interest >= s[b].interest }

\* df_grouped[~df_grouped['country'].isin(EXCLUDED_COUNTRIES)]
df_filtered(s) == SelectSeq(s, LAMBDA r : r.country \notin EXCLUDED_COUNTRIES)

\* df.head(n)
head(s, n) == IF Len(s) <= n THEN s ELSE SubSeq(s, 1, n)

\* the dict built from the top rows
leaderboard_result(s) ==
  [items |-> [k \in DOMAIN head(df_filtered(s), head_rows) |->
                [label |-> head(df_filtered(s), head_rows)[k].country,
                 value |-> head(df_filtered(s), head_rows)[k].interest]]]

\* what fetch_fresh_data returns after its loop
fresh_data_results(all_data) ==
  IF all_data # <<>>
  THEN { leaderboard_result(s) : s \in sort_values(df_grouped(concat(all_data))) }
  ELSE { None }

get_fallback_data ==
  [items |-> << [label |-> "Belgium", value |-> 202],
                [label |-> "United Kingdom", value |-> 150],
                [label |-> "United States", value |-> 125],
                [label |-> "France", value |-> 95],
                [label |-> "United Arab Emirates", value |-> 85],
                [label |-> "Netherlands", value |-> 72],
                [label |-> "Germany", value |-> 65],
                [label |-> "Sweden", value |-> 58],
                [label |-> "Norway", value |-> 45],
                [label |-> "Denmark", value |-> 38] >>]

----------------------------------------------------------------------------
(* State *)

VARIABLES
  cached_data,                 \* module global
  cache_timestamp,             \* module global
  cached_timeseries,           \* module global
  timeseries_cache_timestamp,  \* module global
  clock,                       \* datetime.now(), in hours
  pc,                          \* position of each handler thread
  local                        \* local variables of each handler thread

globals == <<cached_data, cache_timestamp, cached_timeseries, timeseries_cache_timestamp>>
vars == <<cached_data, cache_timestamp, cached_timeseries, timeseries_cache_timestamp,
          clock, pc, local>>

\* the frame of a thread that handles no request
NoLocals ==
  [handler |-> "none",
   now |-> None,
   cache_valid |-> FALSE,
   rate_limited |-> FALSE,
   i |-> 0,
   consecutive_failures |-> 0,
   last_outcome |-> "none",
   slept |-> FALSE,
   all_data |-> <<>>,
   country_data |-> <<>>,
   date_labels |-> None,
   fresh_data |-> None,
   finished_at |-> None,
   response |-> None,
   probes |-> 0,
   subqueries |-> 0]

Init ==
  /\ cached_data = None
  /\ cache_timestamp = None
  /\ cached_timeseries = None
  /\ timeseries_cache_timestamp = None
  /\ clock = 0
  /\ pc = [t \in Threads |-> "idle"]
  /\ local = [t \in Threads |-> NoLocals]

----------------------------------------------------------------------------
(* Environment *)

\* the instants (hours since process start) at which the wall clock is read:
\* the start of each day and the instant cache_duration_hours later, so that
\* both cache durations elapse exactly and inexactly
Instants ==
  { i \in 0..(MaxDays * 24) : i % 24 = 0 \/ i % 24 = cache_duration_hours }

\* the wall clock read by datetime.now() advances to the next instant
Tick ==
  /\ \E i \in Instants :
       /\ i > clock
       /\ \A j \in Instants : j > clock => i <= j
       /\ clock' = i
  /\ UNCHANGED <<globals, pc, local>>

\* the same, over the shorter horizon of the concurrent specification
TickThreads ==
  /\ \E i \in Instants :
       /\ i > clock
       /\ i <= MaxHoursThreads
       /\ \A j \in Instants : j > clock => i <= j
       /\ clock' = i
  /\ UNCHANGED <<globals, pc, local>>

Handlers ==
  {"serve_data", "serve_timeseries", "health_check", "status",
   "refresh_data", "refresh_timeseries"}

\* first position of each view function
Entry(h) ==
  CASE h = "serve_data" -> "sd_check"
    [] h = "serve_timeseries" -> "ts_check"
    [] h = "health_check" -> "hc_respond"
    [] h = "status" -> "st_probe"
    [] h = "refresh_data" -> "rd_probe"
    [] h = "refresh_timeseries" -> "rt_probe"

\* a request arrives and Flask routes it to its view function on thread t
Dispatch(t, h) ==
  /\ pc[t] = "idle"
  /\ pc' = [pc EXCEPT ![t] = Entry(h)]
  /\ local' = [local EXCEPT ![t] = [NoLocals EXCEPT !.handler = h]]
  /\ UNCHANGED <<globals, clock>>

\* the response is sent and thread t is free for the next request
Finish(t) ==
  /\ pc[t] = "done"
  /\ pc' = [pc EXCEPT ![t] = "idle"]
  /\ local' = [local EXCEPT ![t] = NoLocals]
  /\ UNCHANGED <<globals, clock>>

\* the frame a view function leaves behind when it returns the response r
Return(l, r) ==
  [NoLocals EXCEPT !.handler = l.handler, !.response = r,
                   !.cache_valid = l.cache_valid,
                   !.probes = l.probes, !.subqueries = l.subqueries]

\* the frame of the caller when a fetch function returns result: the locals
\* of the fetch function are gone; finished_at notes the instant of the return
Returned(l, result) ==
  [l EXCEPT !.fresh_data = result, !.finished_at = datetime(clock),
            !.i = 0, !.consecutive_failures = 0, !.last_outcome = "none",
            !.slept = FALSE,
            !.all_data = <<>>, !.country_data = <<>>, !.date_labels = None]

----------------------------------------------------------------------------
(* is_heavily_rate_limited *)

\* where each call of is_heavily_rate_limited returns to
ProbeReturn ==
  [p \in {"ff_probe", "ft_probe", "st_probe", "rd_probe", "rt_probe"} |->
     CASE p = "ff_probe" -> "ff_begin"
       [] p = "ft_probe" -> "ft_begin"
       [] p = "st_probe" -> "st_respond"
       [] p = "rd_probe" -> "rd_check"
       [] p = "rt_probe" -> "rt_check"]

\* what the function returns for an outcome of its test request: True only
\* for an exception whose text contains "429"
heavily_rate_limited(outcome) == outcome = "429"

\* one test request against the upstream
is_heavily_rate_limited(t) ==
  /\ pc[t] \in DOMAIN ProbeReturn
  /\ \E outcome \in ProbeOutcomes :
       local' = [local EXCEPT ![t].rate_limited = heavily_rate_limited(outcome),
                              ![t].probes = @ + 1]
  /\ pc' = [pc EXCEPT ![t] = ProbeReturn[pc[t]]]
  /\ UNCHANGED <<globals, clock>>

----------------------------------------------------------------------------
(* fetch_fresh_data *)

\* where fetch_fresh_data returns to
AfterFresh(h) == IF h = "serve_data" THEN "sd_fresh" ELSE "rd_fresh"

\* fetch_fresh_data_begin that enters the loop with one failure already counted
fetch_fresh_data_begin_with_failure(t) ==
  /\ pc[t] = "ff_begin"
  /\ \E session \in SessionOutcomes :
     IF local[t].rate_limited \/ session = "error"
     THEN /\ local' = [local EXCEPT ![t] = Returned(local[t], None)]
          /\ pc' = [pc EXCEPT ![t] = AfterFresh(local[t].handler)]
     ELSE /\ local' = [local EXCEPT ![t].all_data = <<>>,
                                    ![t].consecutive_failures = 1,
                                    ![t].i = 1]
          /\ pc' = [pc EXCEPT ![t] = "ff_loop"]
  /\ UNCHANGED <<globals, clock>>

\* the rate limit check and the session at the head of fetch_fresh_data
fetch_fresh_data_begin(t) ==
  /\ pc[t] = "ff_begin"
  /\ \E session \in SessionOutcomes :
     IF local[t].rate_limited \/ session = "error"
     THEN /\ local' = [local EXCEPT ![t] = Returned(local[t], None)]
          /\ pc' = [pc EXCEPT ![t] = AfterFresh(local[t].handler)]
     ELSE /\ local' = [local EXCEPT ![t].all_data = <<>>,
                                    ![t].consecutive_failures = 0,
                                    ![t].i = 1]
          /\ pc' = [pc EXCEPT ![t] = "ff_loop"]
  /\ UNCHANGED <<globals, clock>>

\* the loop of fetch_fresh_data stops after this failure count
fresh_break(failures) == failures >= fresh_failure_limit

\* fetch_fresh_data_loop that asks again for the keyword of a request that
\* raised, as long as the loop is not left
fetch_fresh_data_loop_retrying(t) ==
  /\ pc[t] = "ff_loop"
  /\ \E outcome \in RegionOutcomes, region_data \in RegionFrames :
       LET l == local[t]
           raised == outcome \in {"429", "error"}
           failures == IF raised THEN l.consecutive_failures + 1
                       ELSE IF outcome = "data" THEN 0
                       ELSE l.consecutive_failures
           stop == raised /\ fresh_break(failures)
           rows == [k \in DOMAIN region_data |->
                      [country |-> region_data[k].geoName,
                       interest |-> region_data[k].value]]
       IN /\ local' = [local EXCEPT
                 ![t].subqueries = @ + 1,
                 ![t].last_outcome = outcome,
                 ![t].slept = ~stop /\ (outcome = "429" \/ l.i < Len(KEYWORDS)),
                 ![t].consecutive_failures = failures,
                 ![t].all_data = IF outcome = "data" THEN Append(@, rows) ELSE @,
                 ![t].i = IF raised THEN @ ELSE @ + 1]
          /\ pc' = [pc EXCEPT ![t] =
                 IF stop \/ (~raised /\ l.i = Len(KEYWORDS)) THEN "ff_end" ELSE "ff_loop"]
  /\ UNCHANGED <<globals, clock>>

\* one iteration of "for i, keyword in enumerate(KEYWORDS)"; i counts from 1.
\* The step runs from the request of the iteration to just before the request
\* of the next one, so that it includes the sleep after a 429 and the sleep
\* "if i > 0" at the head of the next iteration; slept tells whether the
\* thread has slept since the request.
fetch_fresh_data_loop(t) ==
  /\ pc[t] = "ff_loop"
  /\ \E outcome \in RegionOutcomes, region_data \in RegionFrames :
       LET l == local[t]
           raised == outcome \in {"429", "error"}
           failures == IF raised THEN l.consecutive_failures + 1
                       ELSE IF outcome = "data" THEN 0
                       ELSE l.consecutive_failures
           stop == raised /\ fresh_break(failures)
           rows == [k \in DOMAIN region_data |->
                      [country |-> region_data[k].geoName,
                       interest |-> region_data[k].value]]
       IN /\ local' = [local EXCEPT
                 ![t].subqueries = @ + 1,
                 ![t].last_outcome = outcome,
                 ![t].slept = ~stop /\ (outcome = "429" \/ l.i < Len(KEYWORDS)),
                 ![t].consecutive_failures = failures,
                 ![t].all_data = IF outcome = "data" THEN Append(@, rows) ELSE @,
                 ![t].i = IF stop THEN @ ELSE @ + 1]
          /\ pc' = [pc EXCEPT ![t] =
                 IF stop \/ l.i = Len(KEYWORDS) THEN "ff_end" ELSE "ff_loop"]
  /\ UNCHANGED <<globals, clock>>

\* the code after the loop: the result dict, or None without data
fetch_fresh_data_result(t) ==
  /\ pc[t] = "ff_end"
  /\ \E result \in fresh_data_results(local[t].all_data) :
       local' = [local EXCEPT ![t] = Returned(local[t], result)]
  /\ pc' = [pc EXCEPT ![t] = AfterFresh(local[t].handler)]
  /\ UNCHANGED <<globals, clock>>

----------------------------------------------------------------------------
(* serve_data: GET / *)

\* leaderboard_cache_valid with "<=" for "<"
leaderboard_cache_valid_at_limit(now) ==
  /\ cached_data # None
  /\ cache_timestamp # None
  /\ now.hours - cache_timestamp.hours <= cache_duration_hours

\* cache_valid of serve_data
leaderboard_cache_valid(now) ==
  /\ cached_data # None
  /\ cache_timestamp # None
  /\ now.hours - cache_timestamp.hours < cache_duration_hours

\* serve_data_check with the cached branch lost: the fetch is always attempted
serve_data_check_always_fetching(t) ==
  /\ pc[t] = "sd_check"
  /\ local' = [local EXCEPT ![t].now = datetime(clock),
                            ![t].cache_valid = leaderboard_cache_valid(datetime(clock))]
  /\ pc' = [pc EXCEPT ![t] = "ff_probe"]
  /\ UNCHANGED <<globals, clock>>

serve_data_check(t) ==
  /\ pc[t] = "sd_check"
  /\ local' = [local EXCEPT ![t].now = datetime(clock),
                            ![t].cache_valid = leaderboard_cache_valid(datetime(clock))]
  /\ pc' = [pc EXCEPT ![t] =
         IF leaderboard_cache_valid(datetime(clock)) THEN "sd_cached" ELSE "ff_probe"]
  /\ UNCHANGED <<globals, clock>>

serve_data_cached(t) ==
  /\ pc[t] = "sd_cached"
  /\ local' = [local EXCEPT ![t] =
         Return(local[t], [status |-> 200, body |-> cached_data])]
  /\ pc' = [pc EXCEPT ![t] = "done"]
  /\ UNCHANGED <<globals, clock>>

\* "if fresh_data: cached_data = fresh_data"
serve_data_publish(t) ==
  /\ pc[t] = "sd_fresh"
  /\ Truthy(local[t].fresh_data)
  /\ cached_data' = local[t].fresh_data
  /\ pc' = [pc EXCEPT ![t] = "sd_stamp"]
  /\ UNCHANGED <<cache_timestamp, cached_timeseries, timeseries_cache_timestamp,
                 clock, local>>

\* "cache_timestamp = now"
serve_data_stamp(t) ==
  /\ pc[t] = "sd_stamp"
  /\ cache_timestamp' = local[t].now
  /\ pc' = [pc EXCEPT ![t] = "sd_respond"]
  /\ UNCHANGED <<cached_data, cached_timeseries, timeseries_cache_timestamp,
                 clock, local>>

\* "response = jsonify(cached_data)" after the publish
serve_data_respond(t) ==
  /\ pc[t] = "sd_respond"
  /\ local' = [local EXCEPT ![t] =
         Return(local[t], [status |-> 200, body |-> cached_data])]
  /\ pc' = [pc EXCEPT ![t] = "done"]
  /\ UNCHANGED <<globals, clock>>

\* serve_data_fallback that answers with the cached payload, whatever it is
serve_data_fallback_from_cache(t) ==
  /\ pc[t] = "sd_fresh"
  /\ ~Truthy(local[t].fresh_data)
  /\ local' = [local EXCEPT ![t] =
         Return(local[t], [status |-> 200, body |-> cached_data])]
  /\ pc' = [pc EXCEPT ![t] = "done"]
  /\ UNCHANGED <<globals, clock>>

\* "else: response = jsonify(get_fallback_data())"
serve_data_fallback(t) ==
  /\ pc[t] = "sd_fresh"
  /\ ~Truthy(local[t].fresh_data)
  /\ local' = [local EXCEPT ![t] =
         Return(local[t], [status |-> 200, body |-> get_fallback_data])]
  /\ pc' = [pc EXCEPT ![t] = "done"]
  /\ UNCHANGED <<globals, clock>>

----------------------------------------------------------------------------
(* health_check: GET /health *)

health_check(t) ==
  /\ pc[t] = "hc_respond"
  /\ local' = [local EXCEPT ![t] = Return(local[t], [status |-> 200, body |-> "OK"])]
  /\ pc' = [pc EXCEPT ![t] = "done"]
  /\ UNCHANGED <<globals, clock>>

----------------------------------------------------------------------------
(* fetch_timeseries_data *)

\* date labels of the months from January 2025 to the current month; the
\* process runs in February 2025
Months == <<"Jan", "Feb">>
current_month_year == "February 2025"

\* monthly means of interest_over_time for the months the upstream has data for
MonthlyFrames == { <<3>> }

\* outcome of one time series sub-query: an exception mentioning 429, another
\* exception, an empty DataFrame, a DataFrame without keyword columns, or a
\* DataFrame with keyword columns
TimeOutcomes == {"429", "error", "empty", "nocols", "data"}

\* monthly_data.reindex(all_months, fill_value=0).tolist()
reindex(monthly_data) ==
  [k \in DOMAIN Months |-> IF k <= Len(monthly_data) THEN monthly_data[k] ELSE 0]

\* where fetch_timeseries_data returns to
AfterTimeseries(h) == IF h = "serve_timeseries" THEN "ts_fresh" ELSE "rt_fresh"

\* the rate limit check and the session at the head of fetch_timeseries_data
fetch_timeseries_data_begin(t) ==
  /\ pc[t] = "ft_begin"
  /\ \E session \in SessionOutcomes :
     IF local[t].rate_limited \/ session = "error"
     THEN /\ local' = [local EXCEPT ![t] = Returned(local[t], None)]
          /\ pc' = [pc EXCEPT ![t] = AfterTimeseries(local[t].handler)]
     ELSE /\ local' = [local EXCEPT ![t].country_data = <<>>,
                                    ![t].date_labels = None,
                                    ![t].consecutive_failures = 0,
                                    ![t].i = 1]
          /\ pc' = [pc EXCEPT ![t] = "ft_loop"]
  /\ UNCHANGED <<globals, clock>>

\* timeseries_break with ">" for ">="
timeseries_break_late(failures) == failures > timeseries_failure_limit

\* the loop of fetch_timeseries_data stops after this failure count
timeseries_break(failures) == failures >= timeseries_failure_limit

\* one iteration of "for country in TRACKED_COUNTRIES"; i is the position of
\* country in the list. slept tells whether the thread has slept since the
\* request: time.sleep(random.uniform(4, 6)) at the foot of the try block,
\* time.sleep(30) after a 429, and no sleep on the two other ways to continue.
fetch_timeseries_data_loop(t) ==
  /\ pc[t] = "ft_loop"
  /\ LET l == local[t]
         country == TRACKED_COUNTRIES[l.i]
         geo_code == IF country \in DOMAIN country_geo_map
                     THEN country_geo_map[country] ELSE ""
         next_pc == IF l.i = Len(TRACKED_COUNTRIES) THEN "ft_end" ELSE "ft_loop"
     IN IF geo_code = ""
        THEN /\ local' = [local EXCEPT ![t].i = @ + 1]
             /\ pc' = [pc EXCEPT ![t] = next_pc]
        ELSE \E outcome \in TimeOutcomes, monthly_data \in MonthlyFrames :
               LET failures == IF outcome = "data" THEN 0
                               ELSE l.consecutive_failures + 1
                   \* the "no keyword columns" branch continues without
                   \* looking at the failure count
                   stop == outcome \in {"429", "error", "empty"}
                           /\ timeseries_break(failures)
               IN /\ local' = [local EXCEPT
                         ![t].subqueries = @ + 1,
                         ![t].last_outcome = outcome,
                         ![t].slept = ~stop /\ outcome \in {"data", "empty", "429"},
                         ![t].consecutive_failures = failures,
                         ![t].country_data =
                            IF outcome = "data"
                            THEN Append(@, [name |-> country,
                                            data |-> reindex(monthly_data)])
                            ELSE @,
                         ![t].date_labels =
                            IF outcome = "data" /\ @ = None THEN Months ELSE @,
                         ![t].i = IF stop THEN @ ELSE @ + 1]
                  /\ pc' = [pc EXCEPT ![t] = IF stop THEN "ft_end" ELSE next_pc]
  /\ UNCHANGED <<globals, clock>>

\* what fetch_timeseries_data returns after its loop (the last_updated entry
\* of the metadata is left out)
timeseries_result(country_data, date_labels) ==
  IF country_data # <<>> /\ date_labels # None /\ date_labels # <<>>
  THEN [dates |-> date_labels,
        series |-> [k \in DOMAIN country_data |->
                      [name |-> country_data[k].name,
                       data |-> country_data[k].data]],
        metadata |-> [period |-> "monthly",
                      start |-> "January 2025",
                      end |-> current_month_year,
                      data_points |-> Len(date_labels),
                      countries |-> Len(country_data)]]
  ELSE None

fetch_timeseries_data_result(t) ==
  /\ pc[t] = "ft_end"
  /\ local' = [local EXCEPT ![t] =
         Returned(local[t],
                  timeseries_result(local[t].country_data, local[t].date_labels))]
  /\ pc' = [pc EXCEPT ![t] = AfterTimeseries(local[t].handler)]
  /\ UNCHANGED <<globals, clock>>

\* values random.randint(-2, 2) takes in one call of get_fallback_timeseries
RandomNoise == {0 - 2, 2}

\* base_values of get_fallback_timeseries, in insertion order
base_values ==
  << [name |-> "Belgium", base |-> 45],
     [name |-> "France", base |-> 35],
     [name |-> "United Arab Emirates", base |-> 20],
     [name |-> "United Kingdom", base |-> 38],
     [name |-> "United States", base |-> 42] >>

get_fallback_timeseries(noise) ==
  [dates |-> Months,
   series |-> [k \in DOMAIN base_values |->
                 [name |-> base_values[k].name,
                  data |-> [m \in DOMAIN Months |->
                              base_values[k].base + ((m - 1) * 3) + noise]]],
   metadata |-> [period |-> "monthly",
                 start |-> "January 2025",
                 end |-> current_month_year,
                 data_points |-> Len(Months),
                 countries |-> Len(base_values),
                 note |-> "Fallback data - Google Trends unavailable"]]

----------------------------------------------------------------------------
(* serve_timeseries: GET /timeseries *)

\* cache_valid of serve_timeseries
timeseries_cache_valid(now) ==
  /\ cached_timeseries # None
  /\ timeseries_cache_timestamp # None
  /\ now.hours - timeseries_cache_timestamp.hours < timeseries_cache_hours

serve_timeseries_check(t) ==
  /\ pc[t] = "ts_check"
  /\ local' = [local EXCEPT ![t].now = datetime(clock),
                            ![t].cache_valid = timeseries_cache_valid(datetime(clock))]
  /\ pc' = [pc EXCEPT ![t] =
         IF timeseries_cache_valid(datetime(clock)) THEN "ts_cached" ELSE "ft_probe"]
  /\ UNCHANGED <<globals, clock>>

serve_timeseries_cached(t) ==
  /\ pc[t] = "ts_cached"
  /\ local' = [local EXCEPT ![t] =
         Return(local[t], [status |-> 200, body |-> cached_timeseries])]
  /\ pc' = [pc EXCEPT ![t] = "done"]
  /\ UNCHANGED <<globals, clock>>

\* "if fresh_data: cached_timeseries = fresh_data"
serve_timeseries_publish(t) ==
  /\ pc[t] = "ts_fresh"
  /\ Truthy(local[t].fresh_data)
  /\ cached_timeseries' = local[t].fresh_data
  /\ pc' = [pc EXCEPT ![t] = "ts_stamp"]
  /\ UNCHANGED <<cached_data, cache_timestamp, timeseries_cache_timestamp,
                 clock, local>>

\* "timeseries_cache_timestamp = now"
serve_timeseries_stamp(t) ==
  /\ pc[t] = "ts_stamp"
  /\ timeseries_cache_timestamp' = local[t].now
  /\ pc' = [pc EXCEPT ![t] = "ts_respond"]
  /\ UNCHANGED <<cached_data, cache_timestamp, cached_timeseries, clock, local>>

\* "response = jsonify(cached_timeseries)" after the publish
serve_timeseries_respond(t) ==
  /\ pc[t] = "ts_respond"
  /\ local' = [local EXCEPT ![t] =
         Return(local[t], [status |-> 200, body |-> cached_timeseries])]
  /\ pc' = [pc EXCEPT ![t] = "done"]
  /\ UNCHANGED <<globals, clock>>

\* "else: response = jsonify(get_fallback_timeseries())"
serve_timeseries_fallback(t) ==
  /\ pc[t] = "ts_fresh"
  /\ ~Truthy(local[t].fresh_data)
  /\ \E noise \in RandomNoise :
       local' = [local EXCEPT ![t] =
           Return(local[t], [status |-> 200, body |-> get_fallback_timeseries(noise)])]
  /\ pc' = [pc EXCEPT ![t] = "done"]
  /\ UNCHANGED <<globals, clock>>

----------------------------------------------------------------------------
(* status: GET /status *)

\* ".isoformat() if x else None"
isoformat_or_none(x) == IF x # None THEN x ELSE None

\* "(datetime.now() - x).total_seconds() / 3600 if x else None"
hours_since(now, x) == IF x # None THEN [hours |-> now.hours - x.hours] ELSE None

\* the dict of the status view, built from the globals at time now
status_body(rate_limited, now) ==
  [service_status |-> "healthy",
   google_trends_available |-> ~rate_limited,
   rate_limited |-> rate_limited,
   cached_data_exists |-> cached_data # None,
   cache_timestamp |-> isoformat_or_none(cache_timestamp),
   hours_since_update |-> hours_since(now, cache_timestamp),
   cache_duration_hours |-> cache_duration_hours,
   timeseries_cached |-> cached_timeseries # None,
   timeseries_cache_timestamp |-> isoformat_or_none(timeseries_cache_timestamp),
   timeseries_hours_since_update |-> hours_since(now, timeseries_cache_timestamp),
   tracked_countries |-> TRACKED_COUNTRIES,
   total_tracked_countries |-> Len(TRACKED_COUNTRIES),
   keywords |-> KEYWORDS,
   timeseries_period |-> "monthly"]

\* status that drops the cached leaderboard when the probe was rate limited
status_dropping_cache(t) ==
  /\ pc[t] = "st_respond"
  /\ local' = [local EXCEPT ![t] =
         Return(local[t], [status |-> 200,
                           body |-> status_body(local[t].rate_limited, datetime(clock))])]
  /\ pc' = [pc EXCEPT ![t] = "done"]
  /\ cached_data' = IF local[t].rate_limited THEN None ELSE cached_data
  /\ UNCHANGED <<cache_timestamp, cached_timeseries, timeseries_cache_timestamp,
                 clock>>

status(t) ==
  /\ pc[t] = "st_respond"
  /\ local' = [local EXCEPT ![t] =
         Return(local[t], [status |-> 200,
                           body |-> status_body(local[t].rate_limited, datetime(clock))])]
  /\ pc' = [pc EXCEPT ![t] = "done"]
  /\ UNCHANGED <<globals, clock>>

----------------------------------------------------------------------------
(* refresh_data: GET /refresh *)

\* refresh_data_check that probes a second time before it rejects
refresh_data_check_reprobing(t) ==
  /\ pc[t] = "rd_check"
  /\ IF local[t].rate_limited /\ local[t].probes < 2
     THEN /\ pc' = [pc EXCEPT ![t] = "rd_probe"]
          /\ UNCHANGED local
     ELSE IF local[t].rate_limited
     THEN /\ local' = [local EXCEPT ![t] =
                 Return(local[t], [status |-> 429,
                                   body |-> [status |-> "rate_limited"]])]
          /\ pc' = [pc EXCEPT ![t] = "done"]
     ELSE /\ pc' = [pc EXCEPT ![t] = "ff_probe"]
          /\ UNCHANGED local
  /\ UNCHANGED <<globals, clock>>

\* "if is_heavily_rate_limited(): return ..., 429", else fetch_fresh_data()
refresh_data_check(t) ==
  /\ pc[t] = "rd_check"
  /\ IF local[t].rate_limited
     THEN /\ local' = [local EXCEPT ![t] =
                 Return(local[t], [status |-> 429,
                                   body |-> [status |-> "rate_limited"]])]
          /\ pc' = [pc EXCEPT ![t] = "done"]
     ELSE /\ pc' = [pc EXCEPT ![t] = "ff_probe"]
          /\ UNCHANGED local
  /\ UNCHANGED <<globals, clock>>

\* "if fresh_data: cached_data = fresh_data"
refresh_data_publish(t) ==
  /\ pc[t] = "rd_fresh"
  /\ Truthy(local[t].fresh_data)
  /\ cached_data' = local[t].fresh_data
  /\ pc' = [pc EXCEPT ![t] = "rd_stamp"]
  /\ UNCHANGED <<cache_timestamp, cached_timeseries, timeseries_cache_timestamp,
                 clock, local>>

\* "cache_timestamp = datetime.now()"
refresh_data_stamp(t) ==
  /\ pc[t] = "rd_stamp"
  /\ cache_timestamp' = datetime(clock)
  /\ pc' = [pc EXCEPT ![t] = "rd_respond"]
  /\ UNCHANGED <<cached_data, cached_timeseries, timeseries_cache_timestamp,
                 clock, local>>

\* the success response, with len(cached_data["items"])
refresh_data_respond(t) ==
  /\ pc[t] = "rd_respond"
  /\ local' = [local EXCEPT ![t] =
         Return(local[t], [status |-> 200,
                           body |-> [message |-> "Leaderboard data refreshed successfully",
                                     items |-> Len(cached_data.items)]])]
  /\ pc' = [pc EXCEPT ![t] = "done"]
  /\ UNCHANGED <<globals, clock>>

\* refresh_data_failed that also drops the cached leaderboard
refresh_data_failed_clearing(t) ==
  /\ pc[t] = "rd_fresh"
  /\ ~Truthy(local[t].fresh_data)
  /\ local' = [local EXCEPT ![t] =
         Return(local[t], [status |-> 500,
                           body |-> [message |-> "Failed to refresh data"]])]
  /\ pc' = [pc EXCEPT ![t] = "done"]
  /\ cached_data' = None
  /\ cache_timestamp' = None
  /\ UNCHANGED <<cached_timeseries, timeseries_cache_timestamp, clock>>

\* "else: return ..., 500"
refresh_data_failed(t) ==
  /\ pc[t] = "rd_fresh"
  /\ ~Truthy(local[t].fresh_data)
  /\ local' = [local EXCEPT ![t] =
         Return(local[t], [status |-> 500,
                           body |-> [message |-> "Failed to refresh data"]])]
  /\ pc' = [pc EXCEPT ![t] = "done"]
  /\ UNCHANGED <<globals, clock>>

----------------------------------------------------------------------------
(* refresh_timeseries: GET /refresh-timeseries *)

\* "if is_heavily_rate_limited(): return ..., 429", else fetch_timeseries_data()
refresh_timeseries_check(t) ==
  /\ pc[t] = "rt_check"
  /\ IF local[t].rate_limited
     THEN /\ local' = [local EXCEPT ![t] =
                 Return(local[t], [status |-> 429,
                                   body |-> [status |-> "rate_limited"]])]
          /\ pc' = [pc EXCEPT ![t] = "done"]
     ELSE /\ pc' = [pc EXCEPT ![t] = "ft_probe"]
          /\ UNCHANGED local
  /\ UNCHANGED <<globals, clock>>

\* "if fresh_data: cached_timeseries = fresh_data"
refresh_timeseries_publish(t) ==
  /\ pc[t] = "rt_fresh"
  /\ Truthy(local[t].fresh_data)
  /\ cached_timeseries' = local[t].fresh_data
  /\ pc' = [pc EXCEPT ![t] = "rt_stamp"]
  /\ UNCHANGED <<cached_data, cache_timestamp, timeseries_cache_timestamp,
                 clock, local>>

\* "timeseries_cache_timestamp = datetime.now()" and the success response,
\* which is built from the local fresh_data
refresh_timeseries_stamp(t) ==
  /\ pc[t] = "rt_stamp"
  /\ timeseries_cache_timestamp' = datetime(clock)
  /\ local' = [local EXCEPT ![t] =
         Return(local[t], [status |-> 200,
                           body |-> [message |-> "Time series refreshed successfully",
                                     countries |-> Len(local[t].fresh_data.series),
                                     months |-> Len(local[t].fresh_data.dates)]])]
  /\ pc' = [pc EXCEPT ![t] = "done"]
  /\ UNCHANGED <<cached_data, cache_timestamp, cached_timeseries, clock>>

\* refresh_timeseries_failed that reports the failed fetch as a success
refresh_timeseries_failed_as_success(t) ==
  /\ pc[t] = "rt_fresh"
  /\ ~Truthy(local[t].fresh_data)
  /\ local' = [local EXCEPT ![t] =
         Return(local[t], [status |-> 200,
                           body |-> [message |-> "Failed to refresh time series"]])]
  /\ pc' = [pc EXCEPT ![t] = "done"]
  /\ UNCHANGED <<globals, clock>>

\* "else: return ..., 500"
refresh_timeseries_failed(t) ==
  /\ pc[t] = "rt_fresh"
  /\ ~Truthy(local[t].fresh_data)
  /\ local' = [local EXCEPT ![t] =
         Return(local[t], [status |-> 500,
                           body |-> [message |-> "Failed to refresh time series"]])]
  /\ pc' = [pc EXCEPT ![t] = "done"]
  /\ UNCHANGED <<globals, clock>>

----------------------------------------------------------------------------
(* Properties *)

Reads == {"serve_data", "serve_timeseries"}
Refreshes == {"refresh_data", "refresh_timeseries"}

\* thread t has returned the response of a request routed to h
Responded(t, h) == pc[t] = "done" /\ local[t].handler = h

\* thread t takes the step
StepOf(t) == pc'[t] # pc[t] \/ local'[t] # local[t]

\* thread t is inside fetch_fresh_data / fetch_timeseries_data
InFreshCycle(t) == pc[t] \in {"ff_probe", "ff_begin", "ff_loop", "ff_end"}
InTimeseriesCycle(t) == pc[t] \in {"ft_probe", "ft_begin", "ft_loop", "ft_end"}

\* the last sub-query of thread t raised an exception
Raised(t) == local[t].last_outcome \in {"429", "error"}

\* a payload built by get_fallback_timeseries
IsFallbackTimeseries(body) == "note" \in DOMAIN body.metadata

C2_PublishedNeverFallsBack ==
  \A t \in Threads :
    /\ Responded(t, "serve_data") /\ cached_data # None
         => local[t].response.body # get_fallback_data
    /\ Responded(t, "serve_timeseries") /\ cached_timeseries # None
         => ~IsFallbackTimeseries(local[t].response.body)

\* C3: the payload a read returns is never empty: a leaderboard has at least
\* one item, a time series at least one date and one series.
C3_ReadPayloadNonEmpty ==
  \A t \in Threads :
    /\ Responded(t, "serve_data")
         => local[t].response.body # None /\ Len(local[t].response.body.items) >= 1
    /\ Responded(t, "serve_timeseries")
         => /\ local[t].response.body # None
            /\ Len(local[t].response.body.dates) >= 1
            /\ Len(local[t].response.body.series) >= 1

\* C4: a thread whose last sub-query raised an exception that brought the
\* failure counter to the threshold (2 leaderboard, 3 time series) is never in
\* a position to issue another sub-query of that cycle.
C4_ThresholdAborts ==
  \A t \in Threads :
    Raised(t) =>
      /\ pc[t] = "ff_loop" => local[t].consecutive_failures < fresh_failure_limit
      /\ pc[t] = "ft_loop" => local[t].consecutive_failures < timeseries_failure_limit

\* a time series cycle has left its loop on the third consecutive exception
\* with tracked countries still unprocessed
C4_Witness ==
  \E t \in Threads :
    /\ pc[t] = "ft_end"
    /\ Raised(t)
    /\ local[t].consecutive_failures >= timeseries_failure_limit
    /\ local[t].i < Len(TRACKED_COUNTRIES)

\* the loop of thread t was left by break
Aborted(t) ==
  \/ pc[t] = "ff_end" /\ local[t].i <= Len(KEYWORDS)
  \/ pc[t] = "ft_end" /\ local[t].i <= Len(TRACKED_COUNTRIES)

\* C5: a cycle that left its loop by the early abort returns a failure (None),
\* so that nothing accumulated before the abort is published.
C5_AbortReturnsFailure ==
  [][\A t \in Threads :
       Aborted(t) /\ StepOf(t) => local'[t].fresh_data = None]_vars

\* thread t is in a fetch cycle, or past one that returned a failure
InFailingCycle(t) ==
  \/ InFreshCycle(t)
  \/ InTimeseriesCycle(t)
  \/ /\ pc[t] \in {"sd_fresh", "rd_fresh", "ts_fresh", "rt_fresh"}
     /\ ~Truthy(local[t].fresh_data)

\* C6: no step of a fetch cycle, and no step a handler takes after its cycle
\* returned a failure, changes the cached payload or the cache timestamp of
\* either dataset.
C6_FailedCycleKeepsStore ==
  [][\A t \in Threads :
       InFailingCycle(t) /\ StepOf(t) => globals' = globals]_vars

\* a forced refresh has failed while a leaderboard snapshot was cached
C6_Witness ==
  \E t \in Threads :
    /\ Responded(t, "refresh_data")
    /\ local[t].response.status = 500
    /\ cached_data # None
    /\ cache_timestamp # None

\* C7: a status request observes, for each dataset, a payload together with
\* its publish timestamp or neither of them.
C7_StatusSeesWholeSnapshot ==
  \A t \in Threads :
    Responded(t, "status") =>
      /\ local[t].response.body.cached_data_exists
           = (local[t].response.body.cache_timestamp # None)
      /\ local[t].response.body.timeseries_cached
           = (local[t].response.body.timeseries_cache_timestamp # None)

\* C8: at most one fetch cycle of a dataset is in progress.
C8_OneCyclePerDataset ==
  /\ Cardinality({t \in Threads : InFreshCycle(t)}) <= 1
  /\ Cardinality({t \in Threads : InTimeseriesCycle(t)}) <= 1

\* C9: a leaderboard cycle and a time series cycle are never in progress at
\* the same time.
C9_DatasetsSerialized ==
  \A t, u \in Threads : ~(InFreshCycle(t) /\ InTimeseriesCycle(u))

\* thread t has rejected a forced refresh as rate limited
Rejected(t) ==
  /\ pc[t] = "done"
  /\ local[t].handler \in Refreshes
  /\ local[t].response.status = 429

RefreshedCache(h) == IF h = "refresh_data" THEN cached_data ELSE cached_timeseries

\* C11 (as claimed): a forced refresh responds with status 200 or 429 and with
\* no other status, whatever the outcome of the cycle it triggered.
C11_RefreshResponds200Or429 ==
  \A t \in Threads :
    pc[t] = "done" /\ local[t].handler \in Refreshes
      => local[t].response.status \in {200, 429}

\* C11 (amended): a forced refresh responds with 200, 429 or 500: 429 after
\* the rate limit probe alone, 200 only with a snapshot of its dataset in the
\* cache, and 500 after a fetch cycle (second probe issued) that returned a
\* failure.
C11_RefreshResponds200Or429Or500 ==
  \A t \in Threads :
    pc[t] = "done" /\ local[t].handler \in Refreshes =>
      /\ local[t].response.status \in {200, 429, 500}
      /\ local[t].response.status = 429
           => local[t].probes = 1 /\ local[t].subqueries = 0
      /\ local[t].response.status = 200
           => local[t].probes = 2 /\ RefreshedCache(local[t].handler) # None
      /\ local[t].response.status = 500 => local[t].probes = 2

\* a forced refresh of the time series answered 500 after a cycle whose
\* sub-queries all failed, with nothing cached
C11_Witness ==
  \E t \in Threads :
    /\ Responded(t, "refresh_timeseries")
    /\ local[t].response.status = 500
    /\ local[t].subqueries >= 1
    /\ cached_timeseries = None

SubQueryOf(t) == local'[t].subqueries = local[t].subqueries + 1

\* the loop of thread t has ended and the cycle is about to return a payload
CycleSucceeds(t) ==
  \/ pc[t] = "ff_end" /\ local[t].all_data # <<>>
  \/ /\ pc[t] = "ft_end"
     /\ timeseries_result(local[t].country_data, local[t].date_labels) # None

C14_StampNotBeforeCycleEnd ==
  [][\A t \in Threads :
       /\ pc[t] \in {"sd_stamp", "rd_stamp"} /\ pc'[t] # pc[t]
            => cache_timestamp'.hours >= local[t].finished_at.hours
       /\ pc[t] \in {"ts_stamp", "rt_stamp"} /\ pc'[t] # pc[t]
            => timeseries_cache_timestamp'.hours >= local[t].finished_at.hours]_vars

C16_EmptyResultIsNoFailure ==
  [][\A t \in Threads :
       SubQueryOf(t) /\ local'[t].last_outcome = "empty" =>
         /\ local'[t].all_data = local[t].all_data
         /\ local'[t].country_data = local[t].country_data
         /\ local'[t].consecutive_failures = local[t].consecutive_failures
         /\ local'[t].i = local[t].i + 1]_vars

\* C17: a thread that issues a sub-query other than the first of its cycle
\* has slept since the previous sub-query of the cycle, whatever the outcome
\* of that sub-query was.
C17_SleepBetweenSubQueries ==
  [][\A t \in Threads :
       SubQueryOf(t) /\ local[t].subqueries >= 1 => local[t].slept]_vars

\* the sub-queries a cycle run for handler h can ask for
SubQueryBudget(h) ==
  IF h \in {"serve_data", "refresh_data"} THEN Len(KEYWORDS)
  ELSE IF h \in {"serve_timeseries", "refresh_timeseries"} THEN Len(TRACKED_COUNTRIES)
  ELSE 0

\* the probes of a request routed to h: one at the head of the cycle, and for
\* a forced refresh the one the handler makes before it calls the cycle
ProbeBudget(h) == IF h \in Refreshes THEN 2 ELSE 1

\* the fetch function has returned to the handler of thread t
CycleReturned(t) == pc[t] \in {"sd_fresh", "rd_fresh", "ts_fresh", "rt_fresh"}

\* C18: a request issues at most one probe for its cycle and at most one
\* sub-query per keyword (leaderboard) or tracked country (time series); a
\* sub-query is never repeated, every sub-query step moving to the next
\* position of the list or leaving the loop; and a cycle that has started
\* returns to its handler.
C18_CycleTerminatesWithinBudget ==
  /\ [](\A t \in Threads :
          /\ local[t].probes <= ProbeBudget(local[t].handler)
          /\ local[t].subqueries <= SubQueryBudget(local[t].handler)
          /\ pc[t] \in {"ff_loop", "ft_loop"} => local[t].subqueries <= local[t].i - 1)
  /\ [][\A t \in Threads :
          SubQueryOf(t) =>
            \/ local'[t].i = local[t].i + 1
            \/ pc'[t] \in {"ff_end", "ft_end"}]_vars
  /\ \A t \in Threads :
       (InFreshCycle(t) \/ InTimeseriesCycle(t)) ~> CycleReturned(t)

\* a forced refresh of the time series has responded after both probes and
\* one sub-query for every tracked country
C18_Witness ==
  \E t \in Threads :
    /\ Responded(t, "refresh_timeseries")
    /\ local[t].probes = 2
    /\ local[t].subqueries = Len(TRACKED_COUNTRIES)

\* C19: a time series cycle whose consecutive-failure counter has reached the
\* abort threshold, by whichever path, is never in a position to issue
\* another sub-query.
C19_TimeseriesCounterBelowLimitInLoop ==
  \A t \in Threads :
    pc[t] = "ft_loop" => local[t].consecutive_failures < timeseries_failure_limit

\* a payload of the dataset is cached and its timestamp is less than hours old
Fresher(payload, timestamp, hours) ==
  /\ payload # None
  /\ timestamp # None
  /\ clock - timestamp.hours < hours

\* C20: a read finds its cache valid exactly when a payload is cached whose
\* timestamp is less than 6 hours (leaderboard) or 24 hours (time series)
\* old on arrival; such a read responds with the cached payload, has issued
\* no upstream request, and none of its steps changes the cached payload or
\* the cache timestamp of either dataset.
C20_ValidCacheIsServedUntouched ==
  /\ [](\A t \in Threads :
          Responded(t, "serve_data") /\ local[t].cache_valid =>
            /\ local[t].response.body = cached_data
            /\ local[t].probes = 0 /\ local[t].subqueries = 0)
  /\ [](\A t \in Threads :
          Responded(t, "serve_timeseries") /\ local[t].cache_valid =>
            /\ local[t].response.body = cached_timeseries
            /\ local[t].probes = 0 /\ local[t].subqueries = 0)
  /\ [][\A t \in Threads :
          /\ pc[t] = "sd_check" /\ pc'[t] # pc[t] =>
               /\ local'[t].cache_valid
                    = Fresher(cached_data, cache_timestamp, cache_duration_hours)
               /\ local'[t].cache_valid => pc'[t] = "sd_cached"
          /\ pc[t] = "ts_check" /\ pc'[t] # pc[t] =>
               /\ local'[t].cache_valid
                    = Fresher(cached_timeseries, timeseries_cache_timestamp,
                              timeseries_cache_hours)
               /\ local'[t].cache_valid => pc'[t] = "ts_cached"
          /\ local[t].handler \in Reads /\ local'[t].cache_valid /\ StepOf(t)
               => globals' = globals]_vars

\* a time series published at an earlier instant was served from the cache
C20_Witness ==
  \E t \in Threads :
    /\ Responded(t, "serve_timeseries")
    /\ local[t].cache_valid
    /\ local[t].response.body = cached_timeseries
    /\ timeseries_cache_timestamp # None
    /\ clock > timeseries_cache_timestamp.hours

\* C21: whatever the interleaving of the handlers, no step moves the cache
\* timestamp of a dataset to an earlier instant.
C21_CacheTimestampNeverDecreases ==
  [][/\ cache_timestamp # None
          => cache_timestamp'.hours >= cache_timestamp.hours
     /\ timeseries_cache_timestamp # None
          => timeseries_cache_timestamp'.hours >= timeseries_cache_timestamp.hours]_vars

----------------------------------------------------------------------------
(* Specifications *)

\* requests are handled one at a time, by thread t1
Next ==
  \/ Tick
  \/ \E h \in Handlers : Dispatch("t1", h)
  \/ Finish("t1")
  \/ is_heavily_rate_limited("t1")
  \/ fetch_fresh_data_begin("t1")
  \/ fetch_fresh_data_loop("t1")
  \/ fetch_fresh_data_result("t1")
  \/ fetch_timeseries_data_begin("t1")
  \/ fetch_timeseries_data_loop("t1")
  \/ fetch_timeseries_data_result("t1")
  \/ serve_data_check("t1")
  \/ serve_data_cached("t1")
  \/ serve_data_publish("t1")
  \/ serve_data_stamp("t1")
  \/ serve_data_respond("t1")
  \/ serve_data_fallback("t1")
  \/ serve_timeseries_check("t1")
  \/ serve_timeseries_cached("t1")
  \/ serve_timeseries_publish("t1")
  \/ serve_timeseries_stamp("t1")
  \/ serve_timeseries_respond("t1")
  \/ serve_timeseries_fallback("t1")
  \/ health_check("t1")
  \/ status("t1")
  \/ refresh_data_check("t1")
  \/ refresh_data_publish("t1")
  \/ refresh_data_stamp("t1")
  \/ refresh_data_respond("t1")
  \/ refresh_data_failed("t1")
  \/ refresh_timeseries_check("t1")
  \/ refresh_timeseries_publish("t1")
  \/ refresh_timeseries_stamp("t1")
  \/ refresh_timeseries_failed("t1")

Spec == Init /\ [][Next]_vars

\* a step of the thread that runs a fetch function
fetch_step(t) ==
  \/ is_heavily_rate_limited(t)
  \/ fetch_fresh_data_begin(t)
  \/ fetch_fresh_data_loop(t)
  \/ fetch_fresh_data_result(t)
  \/ fetch_timeseries_data_begin(t)
  \/ fetch_timeseries_data_loop(t)
  \/ fetch_timeseries_data_result(t)

\* the same, with the thread that runs a fetch function never halted: every
\* upstream call returns or raises within its timeout (TrendReq(timeout=(10,
\* 25))) and every sleep is finite
SpecFair == Spec /\ WF_vars(fetch_step("t1"))

\* two requests are handled concurrently, one thread each
NextThreads ==
  \/ TickThreads
  \/ \E t \in Threads, h \in Handlers : Dispatch(t, h)
  \/ \E t \in Threads : is_heavily_rate_limited(t)
  \/ \E t \in Threads : fetch_fresh_data_begin(t)
  \/ \E t \in Threads : fetch_fresh_data_loop(t)
  \/ \E t \in Threads : fetch_fresh_data_result(t)
  \/ \E t \in Threads : fetch_timeseries_data_begin(t)
  \/ \E t \in Threads : fetch_timeseries_data_loop(t)
  \/ \E t \in Threads : fetch_timeseries_data_result(t)
  \/ \E t \in Threads : serve_data_check(t)
  \/ \E t \in Threads : serve_data_cached(t)
  \/ \E t \in Threads : serve_data_publish(t)
  \/ \E t \in Threads : serve_data_stamp(t)
  \/ \E t \in Threads : serve_data_respond(t)
  \/ \E t \in Threads : serve_data_fallback(t)
  \/ \E t \in Threads : serve_timeseries_check(t)
  \/ \E t \in Threads : serve_timeseries_cached(t)
  \/ \E t \in Threads : serve_timeseries_publish(t)
  \/ \E t \in Threads : serve_timeseries_stamp(t)
  \/ \E t \in Threads : serve_timeseries_respond(t)
  \/ \E t \in Threads : serve_timeseries_fallback(t)
  \/ \E t \in Threads : health_check(t)
  \/ \E t \in Threads : status(t)
  \/ \E t \in Threads : refresh_data_check(t)
  \/ \E t \in Threads : refresh_data_publish(t)
  \/ \E t \in Threads : refresh_data_stamp(t)
  \/ \E t \in Threads : refresh_data_respond(t)
  \/ \E t \in Threads : refresh_data_failed(t)
  \/ \E t \in Threads : refresh_timeseries_check(t)
  \/ \E t \in Threads : refresh_timeseries_publish(t)
  \/ \E t \in Threads : refresh_timeseries_stamp(t)
  \/ \E t \in Threads : refresh_timeseries_failed(t)

SpecThreads == Init /\ [][NextThreads]_vars

====
